---------------------------- MODULE Spec2Model ----------------------------
(***************************************************************************)
(* A model of halide, a simulation of a photographic negative: silver      *)
(* halide grains (src/src/halide.rs) are exposed photon by photon,         *)
(* developed, collected in an emulsion (src/src/emulsion.rs) and rendered  *)
(* through an H&D curve; main (src/src/main.rs) drives the pipeline.       *)
(*                                                                         *)
(* f32 values are modelled as exact rationals [n, d] in lowest terms; a    *)
(* usize coordinate is modelled as hi * 2^31 + lo so that the cast to i32  *)
(* in the renderer keeps its width.                                        *)
(***************************************************************************)
EXTENDS Integers, Naturals, Sequences, FiniteSets, TLC

VARIABLES
    grain,        \* SpecExpose: the grain under exposure
    lastCall,     \* SpecExpose: the arguments and the grain before the last expose call
    single,       \* SpecDevelop: grain developed once with dt = k * step
    multi,        \* SpecDevelop: grain developed k times with dt = step
    plan,         \* SpecDevelop: the developer, the step, k, and the progress
    emulsion,     \* Spec, SpecRender: Vec<Halide> handed to development and rendering
    pc,           \* Spec: position of main
    field,        \* Spec: halated_exposure, one intensity per pixel
    halide,       \* Spec: the primary grain of the pixel being generated
    subhalides,   \* Spec: the sub-grains of the pixel being generated
    exposed,      \* Spec: silver_count each candidate of the last pixel had after its own exposure
    canvas,       \* Spec, SpecRender: [width, height] of the image
    output,       \* Spec, SpecRender: the rendered RgbaImage
    tasks,        \* SpecRandom: the parallel iterations of create_random_emulsion
    mutex,        \* SpecRandom: holder of the Mutex
    shared,       \* SpecRandom: the Vec behind the Mutex
    result        \* SpecRandom: the Emulsion returned

vars == <<grain, lastCall, single, multi, plan, emulsion, pc, field, halide,
          subhalides, exposed, canvas, output, tasks, mutex, shared, result>>

exposeVars == <<grain, lastCall>>
developVars == <<single, multi, plan>>
mainVars == <<pc, field, halide, subhalides, exposed>>
renderVars == <<emulsion, canvas, output>>
randomVars == <<tasks, mutex, shared, result>>

None == "none"

---------------------------------------------------------------------------
(* Rational arithmetic standing for f32.                                   *)

RECURSIVE GCD(_, _)
GCD(a, b) == IF b = 0 THEN a ELSE GCD(b, a % b)

Abs(a) == IF a < 0 THEN -a ELSE a

Rat(n, d) ==
    LET g == GCD(Abs(n), Abs(d))
        s == IF d < 0 THEN -1 ELSE 1
    IN [n |-> (s * n) \div g, d |-> (s * d) \div g]

RAdd(a, b) == Rat(a.n * b.d + b.n * a.d, a.d * b.d)
RSub(a, b) == Rat(a.n * b.d - b.n * a.d, a.d * b.d)
RMul(a, b) == Rat(a.n * b.n, a.d * b.d)
RDiv(a, b) == Rat(a.n * b.d, a.d * b.n)
RLt(a, b) == a.n * b.d < b.n * a.d
RLe(a, b) == a.n * b.d <= b.n * a.d
RInt(k) == [n |-> k, d |-> 1]
Zero == RInt(0)

\* `f as usize` / `f as u8` on a finite float: truncation toward zero,
\* saturating at 0 for negative values.
Trunc(a) == IF a.n <= 0 THEN 0 ELSE a.n \div a.d

---------------------------------------------------------------------------
(* usize coordinates: hi * 2^31 + lo, 0 <= lo < 2^31.                      *)

USZ(v) == [hi |-> 0, lo |-> v]

\* `u as i32` for u: usize keeps the low 32 bits and reads them as signed.
UsizeAsI32(u) == IF u.hi % 2 = 1 THEN u.lo - 2147483647 - 1 ELSE u.lo

\* `w as i32` for w: u32.
U32AsI32(w) == IF w <= 2147483647 THEN w ELSE (w - 2147483647) - 2147483647 - 2

---------------------------------------------------------------------------
(* src/src/halide.rs                                                       *)

latent_threshold == 20
absorption_probability == Rat(9, 10)
PI == Rat(3142, 1000)

\* Halide::new; radius is the value drawn by rng.random_range(0.1..0.5).
Halide_new(x, y, radius) ==
    [x |-> x, y |-> y, radius |-> radius,
     silver_count |-> 0,
     latent_threshold |-> latent_threshold,
     activated |-> FALSE,
     spectral_sensitivity |-> Zero,
     absorption_probability |-> absorption_probability,
     developed_fraction |-> Zero]

photon_count(self, intensity, exposure_time) ==
    LET area == RMul(PI, RMul(self.radius, self.radius))
    IN Trunc(RMul(RMul(intensity, area), exposure_time))

\* Mutant of PhotonStep: the threshold test is strict.
PhotonStep_gt(self, u) ==
    IF RLt(u, self.absorption_probability)
    THEN LET s == [self EXCEPT !.silver_count = @ + 1]
         IN IF s.silver_count > s.latent_threshold
            THEN [s EXCEPT !.activated = TRUE] ELSE s
    ELSE self

\* One iteration of the photon loop; u is the value of rand::random::<f32>().
PhotonStep(self, u) ==
    IF RLt(u, self.absorption_probability)
    THEN LET s == [self EXCEPT !.silver_count = @ + 1]
         IN IF s.silver_count >= s.latent_threshold
            THEN [s EXCEPT !.activated = TRUE] ELSE s
    ELSE self

RECURSIVE PhotonLoop(_, _, _, _)
PhotonLoop(self, i, n, draws) ==
    IF i > n THEN self
    ELSE PhotonLoop(PhotonStep(self, draws[i]), i + 1, n, draws)

\* Mutant of expose: no early return for an activated grain.
expose_noreturn(self, intensity, exposure_time, draws) ==
    PhotonLoop(self, 1, photon_count(self, intensity, exposure_time), draws)

\* Halide::expose; draws[i] is the i-th random value of the loop.
expose(self, intensity, exposure_time, draws) ==
    IF self.activated THEN self
    ELSE PhotonLoop(self, 1, photon_count(self, intensity, exposure_time), draws)

---------------------------------------------------------------------------
(* Inputs.                                                                 *)

\* Samples of rng.random_range(0.1..0.5).
Radii == {Rat(2, 10), Rat(4, 10)}
\* Samples of rand::random::<f32>() in [0, 1), on both sides of 0.9.
USamples == {Rat(0, 1), Rat(19, 20)}
\* Every outcome of n draws.
AllDraws(n) == [1..n -> USamples]

MaxExposureTime == 8
Intensities == {Zero, Rat(1, 2), RInt(2)}

NoCall == [kind |-> None]

---------------------------------------------------------------------------
(* SpecExpose: one grain from Halide::new under any sequence of expose.    *)

IdleDevelop == single = None /\ multi = None /\ plan = None
IdleMain == pc = None /\ field = None /\ halide = None /\ subhalides = None
            /\ exposed = None
IdleRender == emulsion = None /\ canvas = None /\ output = None
IdleRandom == tasks = None /\ mutex = None /\ shared = None /\ result = None
IdleExpose == grain = None /\ lastCall = None

InitExpose ==
    /\ \E r \in Radii : grain = Halide_new(USZ(0), USZ(0), r)
    /\ lastCall = NoCall
    /\ IdleDevelop /\ IdleMain /\ IdleRender /\ IdleRandom

Expose ==
    \E intensity \in Intensities, t \in 0..MaxExposureTime :
      LET exposure_time == RInt(t)
          n == photon_count(grain, intensity, exposure_time)
      IN \E draws \in AllDraws(n) :
           /\ grain' = expose(grain, intensity, exposure_time, draws)
           /\ lastCall' = [kind |-> "expose", before |-> grain,
                           intensity |-> intensity, photons |-> n]
           /\ UNCHANGED <<developVars, mainVars, renderVars, randomVars>>

NextExpose == Expose

SpecExpose == InitExpose /\ [][NextExpose]_vars

\* C1: after every expose call on a grain from Halide::new, activated is
\* true exactly when silver_count >= latent_threshold.
ActivatedIffThreshold ==
    grain.activated = (grain.silver_count >= grain.latent_threshold)

\* An expose call has just taken a grain across its threshold.
ActivatedIffThreshold_Witness ==
    /\ lastCall.kind = "expose"
    /\ ~lastCall.before.activated
    /\ grain.activated
    /\ grain.silver_count >= grain.latent_threshold

\* C2: the photon loop stops at the threshold, so silver_count never exceeds
\* latent_threshold and equals it exactly when the grain is activated.
SilverNeverExceedsThreshold ==
    /\ grain.silver_count <= grain.latent_threshold
    /\ grain.activated <=> (grain.silver_count = grain.latent_threshold)

\* C3: expose on an activated grain changes no field of the grain.
ExposeActivatedNoOp ==
    (lastCall.kind = "expose" /\ lastCall.before.activated)
        => grain = lastCall.before

\* expose was called on an activated grain with photons arriving.
ExposeActivatedNoOp_Witness ==
    /\ lastCall.kind = "expose"
    /\ lastCall.before.activated
    /\ lastCall.photons > 0
    /\ grain.activated

---------------------------------------------------------------------------
(* SpecDevelop: develop_grain once with dt = T against k times with T / k. *)

\* Mutant of develop_grain: the step overwrites instead of accumulating.
develop_grain_assign(g, dev, dt) ==
    LET latent_ratio == Rat(g.silver_count, g.latent_threshold)
    IN IF RLt(Rat(1, 1000000), latent_ratio)
       THEN LET rate == RMul(dev.strength, latent_ratio)
            IN [g EXCEPT !.developed_fraction = RMul(rate, dt)]
       ELSE g

\* Halide::develop_grain.
develop_grain(g, dev, dt) ==
    LET latent_ratio == Rat(g.silver_count, g.latent_threshold)
    IN IF RLt(Rat(1, 1000000), latent_ratio)
       THEN LET rate == RMul(dev.strength, latent_ratio)
            IN [g EXCEPT !.developed_fraction = RAdd(@, RMul(rate, dt))]
       ELSE g

\* Developer { strength, max_development }.
Developer(strength, max_development) ==
    [strength |-> strength, max_development |-> max_development]

MaxSilver == 3
MaxThreshold == 3
MaxK == 3
Strengths == {Zero, Rat(1, 10), RInt(1)}
Ceilings == {Rat(1, 2), RInt(1)}
DevTimes == {Rat(1, 10), RInt(1), RInt(3)}

DevStarts == {Zero, Rat(1, 4)}

\* A grain with the given counts and developed_fraction (the fields are pub).
GrainWith(silver, threshold, start) ==
    [Halide_new(USZ(0), USZ(0), Rat(4, 10)) EXCEPT
        !.silver_count = silver,
        !.latent_threshold = threshold,
        !.activated = (silver >= threshold),
        !.developed_fraction = start]

InitDevelop ==
    /\ \E silver \in 0..MaxSilver, threshold \in 1..MaxThreshold, start \in DevStarts :
          /\ single = GrainWith(silver, threshold, start)
          /\ multi = GrainWith(silver, threshold, start)
          /\ \E strength \in Strengths, ceiling \in Ceilings, T \in DevTimes, k \in 1..MaxK :
                plan = [dev |-> Developer(strength, ceiling), T |-> T, k |-> k,
                        start |-> start, steps |-> 0, once |-> FALSE]
    /\ IdleExpose /\ IdleMain /\ IdleRender /\ IdleRandom

DevelopOnce ==
    /\ ~plan.once
    /\ single' = develop_grain(single, plan.dev, plan.T)
    /\ plan' = [plan EXCEPT !.once = TRUE]
    /\ UNCHANGED <<multi, exposeVars, mainVars, renderVars, randomVars>>

DevelopStep ==
    /\ plan.steps < plan.k
    /\ multi' = develop_grain(multi, plan.dev, RDiv(plan.T, RInt(plan.k)))
    /\ plan' = [plan EXCEPT !.steps = @ + 1]
    /\ UNCHANGED <<single, exposeVars, mainVars, renderVars, randomVars>>

NextDevelop == DevelopOnce \/ DevelopStep

SpecDevelop == InitDevelop /\ [][NextDevelop]_vars

\* C4: for a grain whose developed_fraction starts at 0, after every
\* develop_grain call developed_fraction lies within [0, dev.max_development].
DevelopedWithinCeiling ==
    plan.start = Zero =>
        \A g \in {single, multi} :
            /\ RLe(Zero, g.developed_fraction)
            /\ RLe(g.developed_fraction, plan.dev.max_development)

\* C5: one develop_grain call with dt = T leaves the same developed_fraction
\* as k calls with dt = T / k.
DevelopStepsAddUp ==
    (plan.once /\ plan.steps = plan.k)
        => single.developed_fraction = multi.developed_fraction

\* Both runs are complete, k >= 2, and the accumulated fraction has passed
\* the developer's ceiling on the way.
DevelopStepsAddUp_Witness ==
    /\ plan.once /\ plan.steps = plan.k /\ plan.k >= 2
    /\ RLt(plan.dev.max_development, multi.developed_fraction)
    /\ single.developed_fraction = multi.developed_fraction

---------------------------------------------------------------------------
(* src/src/emulsion.rs                                                     *)

d_min == Rat(5, 100)
d_max == Rat(25, 10)
gamma == Rat(8, 10)
e0 == Rat(2, 100)

RECURSIVE Digits(_)
Digits(v) == IF v < 10 THEN 1 ELSE 1 + Digits(v \div 10)

\* f32::log10, rounded down to a multiple of 1/2: for r >= 1 the largest
\* m / 2 with 10^m <= r^2; for 0 < r < 1 by log10(r) = -log10(1 / r).
log10(r) ==
    IF r.n >= r.d
    THEN Rat(Digits((r.n * r.n) \div (r.d * r.d)) - 1, 2)
    ELSE Rat(-Digits((r.d * r.d) \div (r.n * r.n)), 2)

\* Emulsion::film_density.
film_density(developed_frac) ==
    LET e == RAdd(developed_frac, e0)
        density == RAdd(d_min, RMul(gamma, log10(RDiv(e, e0))))
    IN IF RLt(density, d_min) THEN d_min
       ELSE IF RLt(d_max, density) THEN d_max
       ELSE density

\* f32::clamp(0.0, 255.0).
Clamp255(v) == IF RLt(v, Zero) THEN Zero ELSE IF RLt(RInt(255), v) THEN RInt(255) ELSE v

\* Mutant of GrainIntensity: the density is not inverted.
GrainIntensity_noinvert(g) ==
    LET density == film_density(g.developed_fraction)
        norm == RDiv(RSub(density, d_min), RSub(d_max, d_min))
    IN Trunc(Clamp255(RMul(RInt(255), norm)))

\* The u8 intensity render_emulsion computes for a grain.
GrainIntensity(g) ==
    LET density == film_density(g.developed_fraction)
        norm == RDiv(RSub(density, d_min), RSub(d_max, d_min))
    IN Trunc(Clamp255(RMul(RInt(255), RSub(RInt(1), norm))))

White == <<255, 255, 255, 255>>

\* image::RgbaImage::new(width, height) with every pixel set to white.
Background(width, height) ==
    [p \in (0..(width - 1)) \X (0..(height - 1)) |-> White]

\* The bounds test of render_emulsion on the coordinates cast to i32.
Skipped(g, width, height) ==
    LET gx == UsizeAsI32(g.x)
        gy == UsizeAsI32(g.y)
    IN gx < 0 \/ gy < 0 \/ gx >= U32AsI32(width) \/ gy >= U32AsI32(height)

\* One iteration of the loop over self.grains.
RenderGrain(out, g, width, height) ==
    IF Skipped(g, width, height) THEN out
    ELSE LET intensity == GrainIntensity(g)
         IN [out EXCEPT ![<<UsizeAsI32(g.x), UsizeAsI32(g.y)>>] =
                 <<intensity, intensity, intensity, 255>>]

RECURSIVE RenderLoop(_, _, _, _, _)
RenderLoop(out, grains, i, width, height) ==
    IF i > Len(grains) THEN out
    ELSE RenderLoop(RenderGrain(out, grains[i], width, height), grains, i + 1,
                    width, height)

\* Emulsion::render_emulsion.
render_emulsion(grains, width, height) ==
    RenderLoop(Background(width, height), grains, 1, width, height)

---------------------------------------------------------------------------
(* SpecRender: render_emulsion on an emulsion built by Emulsion::from.      *)

CanvasWidth == 2
CanvasHeight == 1
MaxRenderGrains == 2

\* x: the first and the last column, just outside the canvas, and 2^32
\* (outside; 0 as i32).
XSamples == {USZ(0), USZ(CanvasWidth - 1), USZ(CanvasWidth), [hi |-> 2, lo |-> 0]}
YSamples == {USZ(0), USZ(CanvasHeight)}
DevSamples == {Zero, Rat(1, 4), RInt(1), RInt(75)}

NotRendered == [rendered |-> FALSE]

InitRender ==
    /\ emulsion = <<>>
    /\ canvas = [width |-> CanvasWidth, height |-> CanvasHeight]
    /\ output = NotRendered
    /\ IdleExpose /\ IdleDevelop /\ IdleMain /\ IdleRandom

\* Emulsion::from(grains): one more grain in the vector handed over.
PushGrain ==
    /\ ~output.rendered
    /\ Len(emulsion) < MaxRenderGrains
    /\ \E x \in XSamples, y \in YSamples, f \in DevSamples :
          emulsion' = Append(emulsion,
              [Halide_new(x, y, Rat(4, 10)) EXCEPT !.developed_fraction = f])
    /\ UNCHANGED <<canvas, output, exposeVars, developVars, mainVars, randomVars>>

Render ==
    /\ ~output.rendered
    /\ output' = [rendered |-> TRUE,
                  image |-> render_emulsion(emulsion, canvas.width, canvas.height)]
    /\ UNCHANGED <<emulsion, canvas, exposeVars, developVars, mainVars, randomVars>>

NextRender == PushGrain \/ Render

SpecRender == InitRender /\ [][NextRender]_vars

\* Grain i's position is the pixel p.
At(i, p) == emulsion[i].x = USZ(p[1]) /\ emulsion[i].y = USZ(p[2])

\* C6: a pixel that is the position of no grain keeps the background, a
\* grain outside the canvas changes no pixel, and a pixel that is the
\* position of some grains holds the value of the last of them.
RenderedByPosition ==
    output.rendered =>
        \A p \in DOMAIN output.image :
            LET here == {i \in 1..Len(emulsion) : At(i, p)}
            IN IF here = {} THEN output.image[p] = White
               ELSE LET last == CHOOSE i \in here : \A j \in here : j <= i
                        v == GrainIntensity(emulsion[last])
                    IN output.image[p] = <<v, v, v, 255>>

\* C7: for grains with developed_fraction a <= b, density(a) <= density(b)
\* within [d_min, d_max], and the intensity written for b is at most the one
\* written for a, every written intensity being in 0..255.
DensityMonotone ==
    /\ \A i, j \in 1..Len(emulsion) :
         LET a == emulsion[i].developed_fraction
             b == emulsion[j].developed_fraction
         IN RLe(a, b) =>
              /\ RLe(film_density(a), film_density(b))
              /\ RLe(d_min, film_density(a)) /\ RLe(film_density(b), d_max)
              /\ GrainIntensity(emulsion[j]) <= GrainIntensity(emulsion[i])
    /\ output.rendered =>
         \A p \in DOMAIN output.image : \A c \in 1..4 : output.image[p][c] \in 0..255

\* Two grains, the second more developed, rendered at different pixels: the
\* second is denser and its pixel darker.
DensityMonotone_Witness ==
    /\ output.rendered
    /\ Len(emulsion) = 2
    /\ RLt(emulsion[1].developed_fraction, emulsion[2].developed_fraction)
    /\ RLt(film_density(emulsion[1].developed_fraction),
           film_density(emulsion[2].developed_fraction))
    /\ emulsion[1].x = USZ(0) /\ emulsion[1].y = USZ(0)
    /\ emulsion[2].x = USZ(CanvasWidth - 1) /\ emulsion[2].y = USZ(0)
    /\ output.image[<<CanvasWidth - 1, 0>>][1] < output.image[<<0, 0>>][1]

---------------------------------------------------------------------------
(* Spec: main of src/src/main.rs from step 4 on: per-pixel generation,     *)
(* development, rendering. The halated exposure field is an input.         *)

\* Halide::from_pixel; radius and draws are the random values it consumes.
from_pixel(x, y, intensity, exposure_time, radius, draws) ==
    expose(Halide_new(x, y, radius), intensity, exposure_time, draws)

\* Halide::average_with_halide.
average_with_halide(self, other) ==
    [self EXCEPT !.silver_count = (self.silver_count + other.silver_count) \div 2]

\* for sub in subhalides { halide.average_with_halide(&sub); }
RECURSIVE AverageLoop(_, _, _)
AverageLoop(h, subs, i) ==
    IF i > Len(subs) THEN h
    ELSE AverageLoop(average_with_halide(h, subs[i]), subs, i + 1)

\* for grain in emulsion.iter_mut() { Halide::develop_grain(grain, &dev, dt); }
DevelopAll(grains, dev, dt) ==
    [i \in 1..Len(grains) |-> develop_grain(grains[i], dev, dt)]

main_exposure_time == 1000
sub_count == 5
main_dev == Developer(Rat(1, 10), RInt(1))
main_dt == Rat(1, 10)

ImageWidth == 2
ImageHeight == 1
\* Values of halated_exposure: dark, and bright enough to activate a grain.
FieldIntensities == {Zero, Rat(1, 20)}
\* The radius sampled for the grains of main.
MainRadii == {Rat(4, 10)}
\* Outcomes of n draws in which the first k photons are absorbed and the
\* others are not, for k none, half and all of them.
PrefixDraws(n) ==
    {[i \in 1..n |-> IF i <= k THEN Rat(0, 1) ELSE Rat(19, 20)] :
        k \in {0, n \div 2, n}}

Pixels == (0..(ImageWidth - 1)) \X (0..(ImageHeight - 1))

Init ==
    /\ canvas = [width |-> ImageWidth, height |-> ImageHeight]
    /\ field \in [Pixels -> FieldIntensities]
    /\ emulsion = <<>>
    /\ pc = [stage |-> "primary", x |-> 0, y |-> 0]
    /\ halide = None
    /\ subhalides = <<>>
    /\ exposed = <<>>
    /\ output = NotRendered
    /\ IdleExpose /\ IdleDevelop /\ IdleRandom

\* A from_pixel call at the current pixel, with every value it may draw.
Candidates ==
    LET intensity == field[<<pc.x, pc.y>>]
        time == RInt(main_exposure_time)
    IN UNION {{from_pixel(USZ(pc.x), USZ(pc.y), intensity, time, r, draws) :
                  draws \in PrefixDraws(photon_count(Halide_new(USZ(pc.x), USZ(pc.y), r),
                                                    intensity, time))} :
              r \in MainRadii}

\* let mut halide = Halide::from_pixel(x, y, intensity, 1000.0);
Primary ==
    /\ pc.stage = "primary"
    /\ \E h \in Candidates :
          /\ halide' = h
          /\ exposed' = <<h.silver_count>>
    /\ subhalides' = <<>>
    /\ pc' = [pc EXCEPT !.stage = "subs"]
    /\ UNCHANGED <<field, renderVars, exposeVars, developVars, randomVars>>

\* One from_pixel of (0..5).map(|_| Halide::from_pixel(...)).collect().
Sub ==
    /\ pc.stage = "subs"
    /\ \E h \in Candidates :
          /\ subhalides' = Append(subhalides, h)
          /\ exposed' = Append(exposed, h.silver_count)
    /\ pc' = [pc EXCEPT !.stage =
                 IF Len(subhalides) + 1 = sub_count THEN "average" ELSE "subs"]
    /\ UNCHANGED <<field, halide, renderVars, exposeVars, developVars, randomVars>>

\* The averaging loop, emulsion.push(halide), and the step of the x, y loops.
AverageAndPush ==
    /\ pc.stage = "average"
    /\ emulsion' = Append(emulsion, AverageLoop(halide, subhalides, 1))
    /\ halide' = None
    /\ subhalides' = <<>>
    /\ pc' = IF pc.x + 1 < canvas.width
                THEN [stage |-> "primary", x |-> pc.x + 1, y |-> pc.y]
             ELSE IF pc.y + 1 < canvas.height
                THEN [stage |-> "primary", x |-> 0, y |-> pc.y + 1]
             ELSE [stage |-> "develop", x |-> 0, y |-> 0]
    /\ UNCHANGED <<field, exposed, canvas, output, exposeVars, developVars, randomVars>>

\* Step 5 of main.
Develop ==
    /\ pc.stage = "develop"
    /\ emulsion' = DevelopAll(emulsion, main_dev, main_dt)
    /\ pc' = [pc EXCEPT !.stage = "render"]
    /\ UNCHANGED <<field, halide, subhalides, exposed, canvas, output,
                   exposeVars, developVars, randomVars>>

\* Step 6 of main.
RenderOutput ==
    /\ pc.stage = "render"
    /\ output' = [rendered |-> TRUE,
                  image |-> render_emulsion(emulsion, canvas.width, canvas.height)]
    /\ pc' = [pc EXCEPT !.stage = "done"]
    /\ UNCHANGED <<field, halide, subhalides, exposed, emulsion, canvas,
                   exposeVars, developVars, randomVars>>

Next == Primary \/ Sub \/ AverageAndPush \/ Develop \/ RenderOutput

Spec == Init /\ [][Next]_vars

RECURSIVE Sum(_, _)
Sum(seq, i) == IF i > Len(seq) THEN 0 ELSE seq[i] + Sum(seq, i + 1)

\* The grain of the last pixel has been pushed and `exposed` holds the
\* silver_count of its candidates.
PixelDone == Len(exposed) = sub_count + 1 /\ pc.stage # "average"

\* C8: the silver_count of the grain retained for a pixel is the sum of the
\* silver_count of all its candidates divided, by integer division, by their
\* number.
RetainedIsMeanOfCandidates ==
    PixelDone =>
        emulsion[Len(emulsion)].silver_count = Sum(exposed, 1) \div Len(exposed)

\* C10: every grain of the emulsion has activated = (silver_count >=
\* latent_threshold), and the retained grain's silver_count is not lower than
\* the value its own exposure produced.
RetainedGrainConsistent ==
    /\ \A i \in 1..Len(emulsion) :
         emulsion[i].activated =
             (emulsion[i].silver_count >= emulsion[i].latent_threshold)
    /\ PixelDone => emulsion[Len(emulsion)].silver_count >= exposed[1]

---------------------------------------------------------------------------
(* SpecRandom: Emulsion::create_random_emulsion. Every iteration of the    *)
(* parallel for_each is a task that may interleave with all the others;    *)
(* the caller continues when all of them have finished.                    *)

MaxRandWidth == 2
MaxRandHeight == 1
MaxNumGrains == 3

Unlocked == [held |-> FALSE]
NotReturned == [returned |-> FALSE]

InitRandom ==
    /\ \E width \in 1..MaxRandWidth, height \in 1..MaxRandHeight :
          canvas = [width |-> width, height |-> height]
    /\ \E num_grains \in 0..MaxNumGrains :
          tasks = [t \in 1..num_grains |-> [pc |-> "start"]]
    /\ mutex = Unlocked
    /\ shared = <<>>
    /\ result = NotReturned
    /\ emulsion = None /\ output = None
    /\ IdleExpose /\ IdleDevelop /\ IdleMain

\* Mutant of CanLock: lock() does not exclude another holder.
CanLock_always(t) == t \in DOMAIN tasks

\* Mutex::lock returns only when no one holds the mutex.
CanLock(t) == t \in DOMAIN tasks /\ ~mutex.held

\* rng.random_range(0..width), rng.random_range(0..height), Halide::new(x, y).
MakeHalideOf(t) ==
    /\ tasks[t].pc = "start"
    /\ \E x \in 0..(canvas.width - 1), y \in 0..(canvas.height - 1), r \in MainRadii :
          tasks' = [tasks EXCEPT ![t] =
                       [pc |-> "made", halide |-> Halide_new(USZ(x), USZ(y), r)]]
    /\ UNCHANGED <<mutex, shared, result, canvas, emulsion, output,
                   exposeVars, developVars, mainVars>>

\* emulsion.lock().unwrap()
LockOf(t) ==
    /\ tasks[t].pc = "made"
    /\ CanLock(t)
    /\ mutex' = [held |-> TRUE, by |-> t]
    /\ tasks' = [tasks EXCEPT ![t].pc = "locked"]
    /\ UNCHANGED <<shared, result, canvas, emulsion, output,
                   exposeVars, developVars, mainVars>>

\* Vec::push reads the length ...
PushLoadOf(t) ==
    /\ tasks[t].pc = "locked"
    /\ tasks' = [tasks EXCEPT ![t] = [pc |-> "loaded", halide |-> @.halide,
                                      len |-> Len(shared)]]
    /\ UNCHANGED <<mutex, shared, result, canvas, emulsion, output,
                   exposeVars, developVars, mainVars>>

\* ... writes the element at that index and stores the length plus one.
PushStoreOf(t) ==
    /\ tasks[t].pc = "loaded"
    /\ shared' = Append(SubSeq(shared, 1, tasks[t].len), tasks[t].halide)
    /\ tasks' = [tasks EXCEPT ![t] = [pc |-> "stored", halide |-> @.halide]]
    /\ UNCHANGED <<mutex, result, canvas, emulsion, output,
                   exposeVars, developVars, mainVars>>

\* The MutexGuard is dropped at the end of the statement.
UnlockOf(t) ==
    /\ tasks[t].pc = "stored"
    /\ mutex' = Unlocked
    /\ tasks' = [tasks EXCEPT ![t].pc = "done"]
    /\ UNCHANGED <<shared, result, canvas, emulsion, output,
                   exposeVars, developVars, mainVars>>

\* After for_each: let lock = emulsion.lock().unwrap(); Self { grains: lock.clone() }
Snapshot ==
    /\ ~result.returned
    /\ \A t \in DOMAIN tasks : tasks[t].pc = "done"
    /\ ~mutex.held
    /\ result' = [returned |-> TRUE, grains |-> shared]
    /\ UNCHANGED <<tasks, mutex, shared, canvas, emulsion, output,
                   exposeVars, developVars, mainVars>>

MakeHalide == \E t \in DOMAIN tasks : MakeHalideOf(t)
Lock == \E t \in DOMAIN tasks : LockOf(t)
PushLoad == \E t \in DOMAIN tasks : PushLoadOf(t)
PushStore == \E t \in DOMAIN tasks : PushStoreOf(t)
Unlock == \E t \in DOMAIN tasks : UnlockOf(t)

NextRandom == MakeHalide \/ Lock \/ PushLoad \/ PushStore \/ Unlock \/ Snapshot

SpecRandom == InitRandom /\ [][NextRandom]_vars

\* How many elements of seq equal v.
Count(seq, v) == Cardinality({i \in 1..Len(seq) : seq[i] = v})

\* C9: the emulsion returned holds exactly num_grains grains, each halide
\* made by a task exactly once, none pushed after the snapshot, each inside
\* the canvas and in the initial chemical state.
RandomEmulsionComplete ==
    result.returned =>
        /\ Len(result.grains) = Cardinality(DOMAIN tasks)
        /\ shared = result.grains
        /\ \A t \in DOMAIN tasks :
             Count(result.grains, tasks[t].halide) =
                 Cardinality({u \in DOMAIN tasks : tasks[u].halide = tasks[t].halide})
        /\ \A i \in 1..Len(result.grains) :
             LET g == result.grains[i]
             IN /\ g.x.hi = 0 /\ g.x.lo \in 0..(canvas.width - 1)
                /\ g.y.hi = 0 /\ g.y.lo \in 0..(canvas.height - 1)
                /\ g.silver_count = 0
                /\ g.activated = FALSE
                /\ g.developed_fraction = Zero

\* Two tasks made different grains and the second one pushed first.
RandomEmulsionComplete_Witness ==
    /\ result.returned
    /\ Cardinality(DOMAIN tasks) >= 2
    /\ Len(result.grains) >= 2
    /\ tasks[1].halide # tasks[2].halide
    /\ result.grains[1] = tasks[2].halide
    /\ result.grains[2] = tasks[1].halide

=============================================================================
